---- MODULE Spec2Model ----
(***************************************************************************)
(* Model of temoa_model/temoa_graphviz.py: CreateModelDiagrams, the output *)
(* directory refresh it performs, the nine diagram functions it dispatches *)
(* (what each writes and which renderer calls it makes) and the two        *)
(* dispatch branches (sequential loop, one process per job gated by a      *)
(* semaphore), and the two text serializers create_text_nodes and          *)
(* create_text_edges.                                                      *)
(*                                                                         *)
(* File names are TLA+ strings built with \o exactly as the code builds    *)
(* them with the % operator; a path is the sequence of its components      *)
(* counted from the directory the program was started in.                  *)
(***************************************************************************)
EXTENDS Integers, Sequences, FiniteSets, TLC

VARIABLES
    platform,   \* sys.platform, as a sequence of characters
    cpu,        \* MP.cpu_count()
    data,       \* the domain data and options the diagram functions read
    batch,      \* the tuple of diagram functions that is dispatched
    budget,     \* how many faults the environment may still inject
    calls,      \* number of calls of CreateModelDiagrams so far
    pc,         \* position of the caller inside CreateModelDiagrams
    i,          \* index of the for loop the caller is in
    cwd,        \* working directory of the calling process
    fs,         \* the paths that exist below the start directory
    sem,        \* value of the semaphore
    proc,       \* per job: "pending", "acquire", "running",
                \*          "stalled", "returned", "raised"
    pcwd,       \* per job: working directory of the job's process
    loop,       \* per job: the artifacts its function is through with (done)
                \*          and the one whose renderer call is open (cur)
    written,    \* [job, path] for every file written during this call
    rfailed,    \* [job, src] for every renderer call that exited non-zero
    outcomes,   \* the per-job outcomes the call hands back to its caller
    error,      \* the statement whose exception ended the call, or "none"
    dirty,      \* whether the run directory held old content at entry
    which,      \* the serializer that is called: "nodes", "edges" or "none"
    input,      \* the collection of entries it is called with
    ind,        \* its indent argument
    text,       \* the text it returned
    spc,        \* position of the serializer call: "idle", "called",
                \*          "returned", "raised"
    model,      \* the solved values a results diagram function reads
    groups,     \* the node and edge sets it has built for one artifact
    rpc         \* position of that function: "idle", "<f>_called" before
                \*          its os.chdir, "<f>_loop" before its first pass,
                \*          "main", "commodity", "segments" in its loop,
                \*          "returned", "raised", "stalled"

vars == <<platform, cpu, data, batch, budget, calls, pc, i, cwd, fs, sem,
          proc, pcwd, loop, written, rfailed, outcomes, error, dirty,
          which, input, ind, text, spc, model, groups, rpc>>

(***************************************************************************)
(* Bounds                                                                  *)
(***************************************************************************)
MaxCpu == 2         \* largest cpu_count() considered
MaxCalls == 2       \* calls of CreateModelDiagrams in one behaviour
MaxFaults == 1      \* injected faults (renderer exit /= 0, exception) per run
MaxPeriod == 2      \* periods are 1..MaxPeriod
MaxLen == 3         \* entries in one collection handed to a serializer
MaxIndent == 2      \* largest indent handed to a serializer
MaxFlow == 6        \* largest flow value, in thousandths
MaxQuiet == 1       \* processes whose solved activity or flow is zero

(***************************************************************************)
(* The inputs                                                              *)
(***************************************************************************)
datname == "utopia"
images_dir == "images_" \o datname

TechNames == {"T", "T_1"}
CarrierNames == {"c", "1"}
Periods == 1..MaxPeriod
GraphTypes == {"separate_vintages", "explicit_vintages", "other"}
Formats == {"svg", "dot"}

\* Python's sorted() on the names above: rank in ascending string order.
SortedNames == <<"1", "T", "T_1", "c">>
NameRank(n) == CHOOSE k \in 1..Len(SortedNames) : SortedNames[k] = n

\* The keys (period, technology, vintage) of g_processInputs for the
\* technologies td and the periods ps: a vintage serves from its own period on.
Keys(td, ps) == {k \in ps \X td \X ps : k[3] <= k[1]}

\* The slice of the domain model the diagram functions read.
\*   techs     M.tech_all
\*   techdata  the technologies that occur in a key of g_processInputs
\*   carriers  g_processInputs[p, t, v] and g_processOutputs[p, t, v], the
\*             same carriers for every key
\*   periods   M.time_optimize
\*   horizon   M.time_horizon
\*   active    g_activeCapacityAvailable_pt
\*   idle      the keys with V_ActivityByPeriodTechAndVintage[p, t, v] = 0
\*   dry       the keys whose V_FlowIn is 0 for every input, output,
\*             season and time of day
MakeData(ts, td, cs, ps, hs, idl, dr, gt, ff) ==
    [techs |-> ts, techdata |-> td, carriers |-> cs, periods |-> ps,
     horizon |-> hs, active |-> ps \X td, idle |-> idl, dry |-> dr,
     graph_type |-> gt, ffmt |-> ff]

DispatchData ==
    MakeData({"T"}, {"T"}, {"c"}, {1}, {1}, {}, {},
             "separate_vintages", "svg")

\* The solved values of at most MaxQuiet keys are zero: the activity of
\* some, the flows of others.
Quiet(K) ==
    {x \in (SUBSET K) \X (SUBSET K) :
        /\ x[1] \cap x[2] = {}
        /\ Cardinality(x[1]) + Cardinality(x[2]) <= MaxQuiet}

RichData ==
    UNION { UNION { { MakeData(ts, td, cs, 1..n, 1..h, x[1], x[2], gt, ff) :
                        cs \in SUBSET CarrierNames, h \in Periods,
                        x \in Quiet(Keys(td, 1..n)),
                        gt \in GraphTypes, ff \in Formats } :
                    td \in SUBSET ts, n \in Periods } :
            ts \in SUBSET TechNames }

(***************************************************************************)
(* The nine diagram functions: what each writes                            *)
(***************************************************************************)
gvizFunctions ==
    << "CreateCompleteEnergySystemDiagram",
       "CreateCommodityPartialGraphs",
       "CreateProcessPartialGraphs",
       "CreateMainModelDiagram",
       "CreateDetailedModelDiagram",
       "CreateTechResultsDiagrams",
       "CreateCommodityPartialResults",
       "CreateMainResultsDiagram",
       "CreatePartialSegmentsDiagram" >>

\* The directory a diagram function changes into (os.chdir), <<>> if none.
JobDir(f) ==
    CASE f = "CreateCommodityPartialGraphs"  -> <<"commodities">>
      [] f = "CreateCommodityPartialResults" -> <<"commodities">>
      [] f = "CreateProcessPartialGraphs"    -> <<"processes">>
      [] f = "CreateTechResultsDiagrams"     -> <<"results">>
      [] f = "CreateMainResultsDiagram"      -> <<"results">>
      [] f = "CreatePartialSegmentsDiagram"  -> <<"results">>
      [] OTHER -> <<>>

\* One pass of a job's loop that writes: the file open() writes (out), the
\* file handed to the renderer as its input (src), the file the renderer
\* writes (img), the rank of the scope in the job's loop (0 when the loop is
\* not sorted), and what tells the passes that write the same file apart
\* (pass, <<>> where every file is written once).
Art(o, s, g, r) == [out |-> o, src |-> s, img |-> g, rank |-> r, pass |-> <<>>]

\* fname + 'dot' is written and rendered into fname + ffmt
Stem(fname, d) == Art(fname \o "dot", fname \o "dot", fname \o d.ffmt, 0)

fname_all_vintages == "all_vintages_model."
fname_simple_model == "simple_model."
fname_commodity(c) == "commodity_" \o c \o "."
fname_process(t, ext) == "process_" \o t \o "." \o ext
fname_process_fmt == "process_%s.%s"
fname_tech_results(tech, per) ==
    "results_" \o tech \o "_" \o ToString(per) \o "."
fname_rc(c, per) == "rc_" \o c \o "_" \o ToString(per) \o "."
fname_results(pp) == "results" \o ToString(pp) \o "."
\* Variant: the segments file named without its p/v/_segments decoration.
fname_segments_plain(t, p, v) ==
    "results_" \o t \o "_" \o ToString(p) \o "."

fname_segments(t, p, v) ==
    "results_" \o t \o "_p" \o ToString(p) \o "v" \o ToString(v)
        \o "_segments."

\* _create_separate writes dot_fname; _create_explicit opens fname itself.
ProcessDotWritten(t, d) ==
    IF d.graph_type = "explicit_vintages"
    THEN fname_process_fmt
    ELSE fname_process(t, "dot")

\* The keys of g_processInputs.
Processes(d) == Keys(d.techdata, d.periods)

\* ProcessVintages(p, t): the vintages of t that serve in period p.
ProcessVintages(p, d) == {v \in d.periods : v <= p}

\* for v in ProcessVintages(p, t):
\*     if not M.V_ActivityByPeriodTechAndVintage[p, t, v]: continue
ActiveVintages(p, t, d) ==
    {v \in ProcessVintages(p, d) : <<p, t, v>> \notin d.idle}

\* The carriers CreateCommodityPartialGraphs collects from the values of
\* g_processInputs and g_processOutputs under every key.
l_carriers(d) == IF Processes(d) = {} THEN {} ELSE d.carriers

\* used_carriers of CreateCommodityPartialResults: the carriers of the keys
\* that have an input and output with `if flowin`.
job_used_carriers(d) ==
    IF \E k \in Processes(d) : k \notin d.dry THEN d.carriers ELSE {}

\* for i in ProcessInputs(p, t, v):
\*     for o in ProcessOutputsByInput(p, t, v, i):
SegmentPairs(d) == d.carriers \X d.carriers

\* Variant: a technology without data is drawn like any other.
has_process_data_always(t, d) == TRUE

\* create_dot_file(t) does not return None: t occurs in a key of
\* g_processInputs (`if not (periods and vintages): return None`) and, for
\* explicit_vintages, these keys have an input and an output
\* (`if not (bnodes and enodes and vnodes and edges): return None`).
has_process_data(t, d) ==
    /\ \E k \in Processes(d) : k[2] = t
    /\ d.graph_type = "explicit_vintages" => d.carriers # {}

JobArtifacts(f, d) ==
    CASE f = "CreateCompleteEnergySystemDiagram" ->
            {Stem(fname_all_vintages, d)}
      [] f = "CreateCommodityPartialGraphs" ->
            {[Stem(fname_commodity(c), d) EXCEPT !.rank = NameRank(c)] :
                c \in l_carriers(d)}
      [] f = "CreateProcessPartialGraphs" ->
            IF d.graph_type \in {"separate_vintages", "explicit_vintages"}
            THEN {Art(ProcessDotWritten(t, d), fname_process(t, "dot"),
                      fname_process(t, d.ffmt), NameRank(t)) :
                    t \in {x \in d.techs : has_process_data(x, d)}}
            ELSE {}
      [] f = "CreateMainModelDiagram" ->
            {Stem(fname_simple_model, d)}
      [] f = "CreateDetailedModelDiagram" -> {}
      [] f = "CreateTechResultsDiagrams" ->
            \* `if not vnodes: continue`
            {Stem(fname_tech_results(pt[2], pt[1]), d) :
                pt \in {x \in d.active :
                        /\ ActiveVintages(x[1], x[2], d) # {}
                        /\ d.carriers # {}}}
      [] f = "CreateCommodityPartialResults" ->
            {Stem(fname_rc(cp[1], cp[2]), d) :
                cp \in job_used_carriers(d) \X d.horizon}
      [] f = "CreateMainResultsDiagram" ->
            {Stem(fname_results(pp), d) : pp \in d.periods}
      [] f = "CreatePartialSegmentsDiagram" ->
            \* `if not flowin: continue` in every slice leaves snodes empty;
            \* the file is named after t, p and v only and is written and
            \* rendered once for every (input, output) pair of the process.
            UNION {UNION {{[Stem(fname_segments(pt[2], pt[1], v), d)
                                EXCEPT !.pass = io] :
                            io \in SegmentPairs(d)} :
                        v \in {w \in ActiveVintages(pt[1], pt[2], d) :
                                <<pt[1], pt[2], w>> \notin d.dry}} :
                    pt \in d.active}

\* create_dot_file is bound only for the two known graph types; with any
\* other value the first loop iteration raises NameError.
JobMustRaise(f, d) ==
    /\ f = "CreateProcessPartialGraphs"
    /\ d.graph_type \notin {"separate_vintages", "explicit_vintages"}
    /\ d.techs # {}

\* The jobs whose loop runs over sorted(...).
JobSorted(f) ==
    f \in {"CreateCommodityPartialGraphs", "CreateProcessPartialGraphs"}

(***************************************************************************)
(* Running one diagram function                                            *)
(***************************************************************************)
\* The path of a file a job names, the job having started in directory base.
Abs(base, f, name) == base \o JobDir(f) \o <<name>>

\* The renderer exits non-zero when its input file does not exist.
RendererMustFail(a, f, d, base, tree) ==
    /\ Abs(base, f, a.src) \notin tree
    /\ a.src \notin {b.out : b \in JobArtifacts(f, d)}

\* The sets of artifacts the loop of f can have completed when it is
\* interrupted before the artifact nxt: a sorted loop has completed exactly
\* the artifacts ranked before nxt.
Completed(f, d, nxt) ==
    LET rest == JobArtifacts(f, d) \ {nxt}
    IN  IF JobSorted(f)
        THEN {{a \in rest : a.rank < nxt.rank}}
        ELSE SUBSET rest

\* Variant: a non-zero renderer exit raises (subprocess.check_call).
AfterCallsChecked(failed) == IF failed = {} THEN "returned" ELSE "raised"

\* How a diagram function ends after its renderer calls, failed being the
\* calls that exited non-zero: the value call(cmd) returns is discarded, so
\* a non-zero exit only leaves the image unwritten.
AfterCalls(failed) == "returned"

\* Every way one call func(**kwargs) can end, as a record
\*   status  "returned", "raised", or "stalled" when a renderer never exits
\*   files   the paths written (by open() and by the renderer)
\*   rfail   the renderer inputs for which call(cmd) returned non-zero
\*   cwd     the working directory the call leaves behind
\*   faults  the number of injected faults
\* n is the number of faults that may be injected: open raises and leaves
\* no file, f.write raises after open created the file, call(cmd) raises, or
\* the renderer never exits, call(cmd) having no timeout.
JobRuns(f, d, base, tree, n) ==
    LET arts == JobArtifacts(f, d)
        forced == {a \in arts : RendererMustFail(a, f, d, base, tree)}
        Outs(S) == {Abs(base, f, a.out) : a \in S}
        Imgs(S) == {Abs(base, f, a.img) : a \in S \ forced}
        Srcs(S) == {a.src : a \in S}
        \* the sets of at most k of the renderer calls
        RECURSIVE Calls(_)
        Calls(k) ==
            IF k = 0 THEN {{}}
            ELSE {X \cup Y : X \in Calls(k - 1),
                             Y \in {{}} \cup {{a} : a \in arts \ forced}}
        normal ==
            {[status |-> AfterCalls(forced \cup R),
              files |-> Outs(arts) \cup Imgs(arts \ R),
              rfail |-> Srcs(forced \cup R),
              cwd |-> base,
              faults |-> Cardinality(R)] :
                R \in Calls(n)}
        nameerror ==
            {[status |-> "raised", files |-> {}, rfail |-> {},
              cwd |-> base \o JobDir(f), faults |-> 0]}
        crashes ==
            UNION {UNION {
                {[status |-> IF kind = "stall" THEN "stalled" ELSE "raised",
                  files |-> Outs(done) \cup Imgs(done)
                            \cup (IF kind = "open" THEN {} ELSE Outs({nxt})),
                  rfail |-> Srcs(forced \cap done),
                  cwd |-> base \o JobDir(f),
                  faults |-> 1] : kind \in {"open", "write", "launch", "stall"}}
                : done \in Completed(f, d, nxt)} : nxt \in arts}
    IN  IF JobMustRaise(f, d) THEN nameerror
        ELSE normal \cup (IF n > 0 THEN crashes ELSE {})

(***************************************************************************)
(* The directory tree                                                      *)
(***************************************************************************)
IsUnder(p, root) == Len(p) >= Len(root) /\ SubSeq(p, 1, Len(root)) = root

\* Variant: only the directory entry itself is removed.
rmtree_entry_only(tree, root) == tree \ {root}

\* shutil.rmtree(root): root and everything below it is gone.
rmtree(tree, root) == {p \in tree : ~IsUnder(p, root)}

\* What a failing rmtree can leave of the subtree: root and a part of the
\* tree below it in which every path still has its parent.
RmtreeLeftovers(tree, root) ==
    LET sub == {p \in tree : IsUnder(p, root)}
    IN  {K \in SUBSET sub :
            /\ root \in K
            /\ \A p \in K : p = root \/ SubSeq(p, 1, Len(p) - 1) \in K}

\* Variant: the working directory is left where it is.
ParentStays(dir) == dir

\* os.chdir('..')
Parent(dir) == IF dir = <<>> THEN <<>> ELSE SubSeq(dir, 1, Len(dir) - 1)

\* Files other programs may leave in the tree between two runs.
StrayPaths ==
    { <<images_dir, "old.txt">>,
      <<images_dir, "commodities", "commodity_c.dot">>,
      <<images_dir, "junk", "x.svg">> }

Ancestors(p) == {SubSeq(p, 1, k) : k \in 1..Len(p)}

Categories == <<"commodities", "processes", "results">>

RunTree == {<<images_dir>>} \cup
           {<<images_dir, Categories[k]>> : k \in 1..Len(Categories)}

(***************************************************************************)
(* The text serializers create_text_nodes and create_text_edges            *)
(*                                                                         *)
(* A Python str is the sequence of its code points, so that padding,       *)
(* joining and the order sorted() puts the lines in are computed as Python *)
(* computes them.  A collection of entries is the sequence in which it is  *)
(* iterated.                                                               *)
(***************************************************************************)
\* None is a value that is no str.
None == <<-1>>

\* `if a` for an attribute a: None and the empty string are false.
Truthy(a) == a # None /\ a # <<>>

\* _getLen(key)(obj)
getLen(obj, key) == Len(obj[key])

\* max(...) of a non-empty collection of integers
max(S) == CHOOSE m \in S : \A x \in S : x <= m

\* '{0:<w}'.format(s): s left-justified in w columns, filled with spaces
ljust(s, w) == s \o [k \in 1..(w - Len(s)) |-> 32]

\* q % n with q = '"%s"'
q(n) == <<34>> \o n \o <<34>>

\* nfmt_attr = '{0:<%d} [ {1} ] ;' % maxl
nfmt_attr(n, a, maxl) ==
    ljust(n, maxl) \o <<32, 91, 32>> \o a \o <<32, 93, 32, 59>>

\* nfmt_noa = '{0} ;'
nfmt_noa(n) == n \o <<32, 59>>

\* efmt_attr = '{0:<%d} -> {1:<%d} [ {2} ] ;' % (maxl, maxr)
efmt_attr(src, dst, a, maxl, maxr) ==
    ljust(src, maxl) \o <<32, 45, 62, 32>> \o ljust(dst, maxr)
        \o <<32, 91, 32>> \o a \o <<32, 93, 32, 59>>

\* Variant: the destination is padded as in the attributed format.
efmt_noa_padded(src, dst, maxl, maxr) ==
    ljust(src, maxl) \o <<32, 45, 62, 32>> \o ljust(dst, maxr) \o <<32, 59>>

\* efmt_noa = '{0:<%d} -> {1} ;' % maxl
efmt_noa(src, dst, maxl, maxr) ==
    ljust(src, maxl) \o <<32, 45, 62, 32>> \o dst \o <<32, 59>>

\* Variant: the lines are kept in a list, repeated lines included.
list(lines) == lines

\* set(...): the lines without repetitions.  The order in which Python
\* iterates a set is not defined; here it is the order of first occurrence,
\* and sorted() makes the choice immaterial.
set(lines) ==
    LET first == {k \in 1..Len(lines) :
                    \A m \in 1..(k - 1) : lines[m] # lines[k]}
        nth(r) == CHOOSE k \in first :
                    Cardinality({m \in first : m < k}) = r - 1
    IN  [r \in 1..Cardinality(first) |-> lines[nth(r)]]

\* a < b for two str: the first differing code point decides, a proper
\* prefix is the smaller.
StrLess(a, b) ==
    LET n == IF Len(a) < Len(b) THEN Len(a) ELSE Len(b)
        diff == {k \in 1..n : a[k] # b[k]}
    IN  IF diff = {} THEN Len(a) < Len(b)
        ELSE LET k == CHOOSE d \in diff : \A e \in diff : d <= e
             IN  a[k] < b[k]

\* Variant: the lines are joined in the order the collection yields them.
unsorted(lines) == lines

\* sorted(lines): ascending, equal lines kept in their order.
sorted(lines) ==
    LET rank(k) ==
            Cardinality({m \in 1..Len(lines) : StrLess(lines[m], lines[k])})
            + Cardinality({m \in 1..(k - 1) : lines[m] = lines[k]}) + 1
    IN  [r \in 1..Len(lines) |->
            lines[CHOOSE k \in 1..Len(lines) : rank(k) = r]]

\* sep.join(lines)
RECURSIVE join(_, _)
join(sep, lines) ==
    IF lines = <<>> THEN <<>>
    ELSE IF Len(lines) = 1 THEN lines[1]
    ELSE lines[1] \o sep \o join(sep, Tail(lines))

\* Variant: the lines are separated by the newline alone.
SeparatorNewline(indent) == <<10>>

\* '\n' + '\t' * indent
Separator(indent) == <<10>> \o [k \in 1..indent |-> 9]

\* Variant: nothing is returned for an empty collection.
no_section_text == <<>>

\* '// no nodes in this section'
no_nodes_text ==
    <<47, 47, 32, 110, 111, 32, 110, 111, 100, 101, 115, 32, 105, 110,
      32, 116, 104, 105, 115, 32, 115, 101, 99, 116, 105, 111, 110>>

\* '// no edges in this section'
no_edges_text ==
    <<47, 47, 32, 110, 111, 32, 101, 100, 103, 101, 115, 32, 105, 110,
      32, 116, 104, 105, 115, 32, 115, 101, 99, 116, 105, 111, 110>>

\* Variant: the width is taken over the entries that have attributes.
node_maxl_attributed(nodes) ==
    LET S == {getLen(nodes[k], 1) : k \in {m \in 1..Len(nodes) :
                                            Truthy(nodes[m][2])}}
    IN  (IF S = {} THEN 0 ELSE max(S)) + 2

\* maxl = max(map(_getLen(0), nodes)) + 2
node_maxl(nodes) == max({getLen(nodes[k], 1) : k \in 1..Len(nodes)}) + 2

\* The entries of a collection that pass / fail `if a`, a the last field.
WithAttr(entries) == SelectSeq(entries, LAMBDA e : Truthy(e[Len(e)]))
WithoutAttr(entries) == SelectSeq(entries, LAMBDA e : ~Truthy(e[Len(e)]))

\* Variant: the fields are taken by index, so that surplus fields pass.
unpacks_prefix(entries, n) == \A k \in 1..Len(entries) : Len(entries[k]) >= n

\* `for a, b in nodes` / `for a, b, c in edges` (in the assert, and again in
\* the generators that render the lines): unpacking an entry into n names
\* succeeds only if the entry has exactly n items, else ValueError is raised.
unpacks(entries, n) == \A k \in 1..Len(entries) : Len(entries[k]) = n

create_text_nodes(nodes, indent) ==
    IF nodes = <<>> THEN no_nodes_text
    ELSE
        LET maxl == node_maxl(nodes)
            attr == WithAttr(nodes)
            noa == WithoutAttr(nodes)
            gviz == set(
                [k \in 1..Len(attr) |->
                    nfmt_attr(q(attr[k][1]), attr[k][2], maxl)]
                \o [k \in 1..Len(noa) |-> nfmt_noa(q(noa[k][1]))])
        IN  join(Separator(indent), sorted(gviz))

\* maxl = max(map(_getLen(0), edges)); maxl += 2
edge_maxl(edges) == max({getLen(edges[k], 1) : k \in 1..Len(edges)}) + 2

\* Variant: one width, that of the sources, serves both fields.
edge_maxr_shared(edges) == edge_maxl(edges)

\* maxr = max(map(_getLen(1), edges)); maxr += 2
edge_maxr(edges) == max({getLen(edges[k], 2) : k \in 1..Len(edges)}) + 2

create_text_edges(edges, indent) ==
    IF edges = <<>> THEN no_edges_text
    ELSE
        LET maxl == edge_maxl(edges)
            maxr == edge_maxr(edges)
            attr == WithAttr(edges)
            noa == WithoutAttr(edges)
            gviz == set(
                [k \in 1..Len(attr) |->
                    efmt_attr(q(attr[k][1]), q(attr[k][2]), attr[k][3],
                              maxl, maxr)]
                \o [k \in 1..Len(noa) |->
                    efmt_noa(q(noa[k][1]), q(noa[k][2]), maxl, maxr)])
        IN  join(Separator(indent), sorted(gviz))

(***************************************************************************)
(* The results diagrams: the used and unused groups of one artifact        *)
(*                                                                         *)
(* Solved values are integers counting thousandths.  The topology is that  *)
(* of two technologies: T turns carrier c into carrier 1 and emits one     *)
(* emission commodity, T_1 turns 1 back into c; a third carrier is         *)
(* declared and never used.                                                *)
(***************************************************************************)
\* epsilon = 0.005
epsilon == 5

\* Variant: a value equal to the threshold does not count.
significant_strict(x) == x > epsilon

\* `inp >= epsilon`, `out >= epsilon`, and the negation of `amt < epsilon`
significant(x) == x >= epsilon

\* M.tech_all, all with an entry in V_Cap
ResTechs == {"T", "T_1"}

\* M.commodity_carrier and M.commodity_emissions of the model m.  They are
\* separate sets of names and nothing keeps a name out of two of them: the
\* carrier no process uses is named m.idle, 'u' or like the technology 'T',
\* and the emission commodity is named m.emitted, 'e' or like the carrier '1'.
ResCarriers(m) == {"c", "1", m.idle}
ResEmissions(m) == {m.emitted}

\* ProcessInputs(pp, tt, vv) and ProcessOutputs(pp, tt, vv), every vintage
ResInputs(tt) == IF tt = "T" THEN {"c"} ELSE {"1"}
ResOutputs(tt) == IF tt = "T" THEN {"1"} ELSE {"c"}

\* The (input, technology) and (technology, output) pairs that carry a
\* flow, and the (technology, emission) keys of M.EmissionActivity.
InPairs == UNION {{<<ii, tt>> : ii \in ResInputs(tt)} : tt \in ResTechs}
OutPairs == UNION {{<<tt, oo>> : oo \in ResOutputs(tt)} : tt \in ResTechs}
EmiPairs(m) == {"T"} \X ResEmissions(m)

\* flow_fmt % inp with flow_fmt = 'label="%.2f"': the label shows the value
\* rounded to hundredths, so that different values can have one label (0.005
\* and 0.006 are both 'label="0.01"', 0 and 0.004 both 'label="0.00"').  x
\* counts thousandths and the label holds hundredths; the rounding is that
\* of the float for the values used here, all below 0.015.
flow_fmt(x) == <<"label", (x + 5) \div 10>>

\* The sets CreateMainResultsDiagram builds for period pp from the values
\* m.cap (V_Cap), m.EI, m.EO and m.Emi (EmiO); an emission below epsilon is
\* passed over (`continue`) and gets no edge.
MainResultsGroups(m, pp) ==
    LET usedi == {pr \in InPairs : significant(m.EI[pr])}
        usedo == {pr \in OutPairs : significant(m.EO[pr])}
        usedm == {pr \in EmiPairs(m) : significant(m.Emi[pr[1]])}
        usedc == {pr[1] : pr \in usedi} \cup {pr[2] : pr \in usedo}
        usede == {pr[2] : pr \in usedm}
    IN  [etechs |-> {<<tt, <<"tech", tt, m.cap[tt], pp>>>> :
                        tt \in {t \in ResTechs : m.cap[t] # 0}},
         dtechs |-> {<<tt, None>> : tt \in {t \in ResTechs : m.cap[t] = 0}},
         ecarriers |-> {<<cc, <<"href", cc, pp>>>> : cc \in usedc},
         dcarriers |-> {<<cc, None>> : cc \in ResCarriers(m) \ usedc},
         eemissions |-> {<<ee, None>> : ee \in usede},
         demissions |-> {<<ee, None>> : ee \in ResEmissions(m) \ usede},
         eflowsi |-> {<<pr[1], pr[2], flow_fmt(m.EI[pr])>> : pr \in usedi},
         eflowso |-> {<<pr[1], pr[2], flow_fmt(m.EO[pr])>> : pr \in usedo}
                     \cup {<<pr[1], pr[2], flow_fmt(m.Emi[pr[1]])>> :
                            pr \in usedm},
         dflows |-> {<<pr[1], pr[2], None>> :
                        pr \in (InPairs \ usedi) \cup (OutPairs \ usedo)}]

\* used_techs and used_carriers of CreateCommodityPartialResults: the
\* technologies with a non-zero flow in (`if flowin`) and their carriers.
used_techs(m) == {pr[2] : pr \in {x \in InPairs : m.EI[x] # 0}}
used_carriers(m) ==
    UNION {ResInputs(tt) \cup ResOutputs(tt) : tt \in used_techs(m)}

\* Variant: every technology is drawn as unused too.
tech_is_used_never(tt, m) == FALSE

\* `l_tech in used_techs`
tech_is_used(tt, m) == tt \in used_techs(m)

\* The sets CreateCommodityPartialResults builds for one carrier and period.
CommodityGroups(m, l_carrier, l_per) ==
    LET byin == {tt \in ResTechs : l_carrier \in ResInputs(tt)}
        byout == {tt \in ResTechs : l_carrier \in ResOutputs(tt)}
        href(tt) == <<"href", tt, l_per>>
    IN  [enodes |-> {<<tt, href(tt)>> :
                        tt \in {t \in byin \cup byout : t \in used_techs(m)}},
         dnodes |-> {<<tt, None>> :
                        tt \in {t \in byin \cup byout : ~tech_is_used(t, m)}},
         eedges |-> {<<l_carrier, tt, None>> :
                        tt \in {t \in byin : t \in used_techs(m)}}
                    \cup {<<tt, l_carrier, None>> :
                        tt \in {t \in byout : t \in used_techs(m)}},
         dedges |-> {<<l_carrier, tt, None>> :
                        tt \in {t \in byin : ~tech_is_used(t, m)}}
                    \cup {<<tt, l_carrier, None>> :
                        tt \in {t \in byout : ~tech_is_used(t, m)}}]

(***************************************************************************)
(* Control flow of CreateModelDiagrams                                     *)
(***************************************************************************)
\* 'win' in sys.platform, the platform name being a sequence of characters
IsWin(plat) ==
    \E k \in 1..Len(plat) :
        k + 2 <= Len(plat) /\ SubSeq(plat, k, k + 2) = <<"w", "i", "n">>

win32 == <<"w", "i", "n", "3", "2">>
linux == <<"l", "i", "n", "u", "x">>
Platforms == {win32, linux}

\* Variant: the jobs are dispatched before os.makedirs('results').
NextPcEarlyDispatch(p, plat) ==
    CASE p = "exists"         -> "mkdir"
      [] p = "mkdir"          -> "chdir"
      [] p = "chdir"          -> "mk_commodities"
      [] p = "mk_commodities" -> "mk_processes"
      [] p = "mk_processes"   -> IF IsWin(plat) THEN "seq" ELSE "sem"
      [] p = "mk_results"     -> IF IsWin(plat) THEN "seq" ELSE "sem"
      [] p = "sem"            -> "start"
      [] p = "start"          -> "join"
      [] p = "seq"            -> "return"
      [] p = "join"           -> "return"
      [] p = "return"         -> "returned"

\* The statement that follows statement p when p completes normally.
NextPc(p, plat) ==
    CASE p = "exists"         -> "mkdir"
      [] p = "mkdir"          -> "chdir"
      [] p = "chdir"          -> "mk_commodities"
      [] p = "mk_commodities" -> "mk_processes"
      [] p = "mk_processes"   -> "mk_results"
      [] p = "mk_results"     -> IF IsWin(plat) THEN "seq" ELSE "sem"
      [] p = "sem"            -> "start"
      [] p = "start"          -> "join"
      [] p = "seq"            -> "return"
      [] p = "join"           -> "return"
      [] p = "return"         -> "returned"

\* Variant: the exception is swallowed and the function carries on.
PcAfterErrorSwallowed(p, plat) == NextPc(p, plat)

\* No statement of CreateModelDiagrams is inside a try block: an exception
\* raised by statement p leaves the function.
PcAfterError(p, plat) == "raised"

\* The function has no return statement and keeps the Process objects in a
\* local list: no per-job outcome reaches the caller.
ReturnValue == {}

\* Variant: one permit too many.
SemaphoreOffByOne(n) == n + 1

\* MP.Semaphore(n)
Semaphore(n) == n

\* Variant: join returns as soon as the process has been started.
ExitedOrStarted(st) == st # "pending"

\* p.join() returns once the process has exited.
Exited(st) == st \in {"returned", "raised"}

Jobs == 1..Len(batch)

(***************************************************************************)
(* Actions of the caller                                                   *)
(***************************************************************************)
env == <<platform, cpu, data, batch>>
hist == <<error, dirty>>
ser == <<which, input, ind, text, spc>>
res == <<model, groups, rpc>>

\* A function that has not written anything yet.
NoProgress == [done |-> {}, cur |-> <<>>]

\* CreateModelDiagrams(M, options) is entered.
Call ==
    /\ pc \in {"idle", "returned"}
    /\ calls < MaxCalls
    /\ calls' = calls + 1
    /\ pc' = "exists"
    /\ i' = 1
    /\ proc' = [j \in Jobs |-> "pending"]
    /\ pcwd' = [j \in Jobs |-> <<>>]
    /\ loop' = [j \in Jobs |-> NoProgress]
    /\ written' = {}
    /\ rfailed' = {}
    /\ outcomes' = {}
    /\ error' = "none"
    /\ dirty' = (\E p \in fs : IsUnder(p, <<images_dir>>) /\ p \notin RunTree)
    /\ UNCHANGED <<res, ser, env, budget, cwd, fs, sem>>

\* Between two runs other programs write into the tree.
ExternalWrite ==
    /\ pc \in {"idle", "returned"}
    /\ \E p \in StrayPaths :
        /\ p \notin fs
        /\ fs' = fs \cup Ancestors(p)
    /\ UNCHANGED <<res, ser, env, budget, calls, pc, i, cwd, sem, proc, pcwd, loop,
                   written, rfailed, outcomes, hist>>

\* if os.path.exists(images_dir): rmtree(images_dir)
RemoveOld ==
    /\ pc = "exists"
    /\ LET root == cwd \o <<images_dir>>
       IN  \/ /\ root \notin fs
              /\ pc' = NextPc(pc, platform)
              /\ UNCHANGED <<fs, budget, error>>
           \/ /\ root \in fs
              /\ fs' = rmtree(fs, root)
              /\ pc' = NextPc(pc, platform)
              /\ UNCHANGED <<budget, error>>
           \/ /\ root \in fs
              /\ budget > 0
              /\ budget' = budget - 1
              /\ \E K \in RmtreeLeftovers(fs, root) :
                    fs' = rmtree(fs, root) \cup K
              /\ pc' = PcAfterError(pc, platform)
              /\ error' = pc
    /\ UNCHANGED <<res, ser, env, calls, i, cwd, sem, proc, pcwd, loop, written,
                   rfailed, outcomes, dirty>>

\* os.mkdir(name) / os.makedirs(name) at statement p: the directory is
\* created, or the call raises (it always does when the path exists).
MakeDirectory(p, name) ==
    /\ pc = p
    /\ LET path == cwd \o <<name>>
       IN  \/ /\ path \notin fs
              /\ fs' = fs \cup {path}
              /\ pc' = NextPc(pc, platform)
              /\ UNCHANGED <<budget, error>>
           \/ /\ path \notin fs
              /\ budget > 0
              /\ budget' = budget - 1
              /\ pc' = PcAfterError(pc, platform)
              /\ error' = pc
              /\ UNCHANGED fs
           \/ /\ path \in fs
              /\ pc' = PcAfterError(pc, platform)
              /\ error' = pc
              /\ UNCHANGED <<fs, budget>>
    /\ UNCHANGED <<res, ser, env, calls, i, cwd, sem, proc, pcwd, loop, written,
                   rfailed, outcomes, dirty>>

\* os.mkdir(images_dir)
MkdirImages == MakeDirectory("mkdir", images_dir)

\* os.chdir(images_dir)
ChdirImages ==
    /\ pc = "chdir"
    /\ cwd' = cwd \o <<images_dir>>
    /\ pc' = NextPc(pc, platform)
    /\ UNCHANGED <<res, ser, env, budget, calls, i, fs, sem, proc, pcwd, loop,
                   written, rfailed, outcomes, hist>>

\* os.makedirs('commodities'); os.makedirs('processes'); os.makedirs('results')
MakedirsCommodities == MakeDirectory("mk_commodities", "commodities")
MakedirsProcesses == MakeDirectory("mk_processes", "processes")
MakedirsResults == MakeDirectory("mk_results", "results")

\* The effect of one ended call of batch[j] on the files and the records.
Record(j, o) ==
    /\ fs' = fs \cup o.files
    /\ written' = written \cup {[job |-> j, path |-> x] : x \in o.files}
    /\ rfailed' = rfailed \cup {[job |-> j, src |-> x] : x \in o.rfail}
    /\ budget' = budget - o.faults
    /\ proc' = [proc EXCEPT ![j] = o.status]

\* for func in gvizFunctions: func(**kwargs)        (the 'win' branch)
SeqRun ==
    /\ pc = "seq"
    /\ i <= Len(batch)
    /\ proc[i] = "pending"
    /\ \E o \in JobRuns(batch[i], data, cwd, fs, budget) :
        /\ Record(i, o)
        /\ cwd' = o.cwd
        /\ CASE o.status = "returned" ->
                /\ i' = i + 1
                /\ pc' = IF i = Len(batch) THEN NextPc(pc, platform) ELSE pc
                /\ UNCHANGED error
             [] o.status = "raised" ->
                /\ i' = i
                /\ pc' = PcAfterError(pc, platform)
                /\ error' = pc
             [] o.status = "stalled" ->
                UNCHANGED <<i, pc, error>>
    /\ UNCHANGED <<res, ser, env, calls, sem, pcwd, loop, outcomes, dirty>>

\* sem = MP.Semaphore(MP.cpu_count()); processes = [...]
CreateSemaphore ==
    /\ pc = "sem"
    /\ sem' = Semaphore(cpu)
    /\ pc' = NextPc(pc, platform)
    /\ i' = 1
    /\ UNCHANGED <<res, ser, env, budget, calls, cwd, fs, proc, pcwd, loop, written,
                   rfailed, outcomes, hist>>

\* for p in processes: p.start()
StartProcess ==
    /\ pc = "start"
    /\ i <= Len(batch)
    /\ proc' = [proc EXCEPT ![i] = "acquire"]
    /\ pcwd' = [pcwd EXCEPT ![i] = cwd]
    /\ IF i = Len(batch)
       THEN i' = 1 /\ pc' = NextPc(pc, platform)
       ELSE i' = i + 1 /\ pc' = pc
    /\ UNCHANGED <<res, ser, env, budget, calls, cwd, fs, sem, loop, written,
                   rfailed, outcomes, hist>>

\* for p in processes: p.join()
JoinProcess ==
    /\ pc = "join"
    /\ i <= Len(batch)
    /\ Exited(proc[i])
    /\ IF i = Len(batch)
       THEN i' = i /\ pc' = NextPc(pc, platform)
       ELSE i' = i + 1 /\ pc' = pc
    /\ UNCHANGED <<res, ser, env, budget, calls, cwd, fs, sem, proc, pcwd, loop,
                   written, rfailed, outcomes, hist>>

\* os.chdir('..') and the end of the function
Return ==
    /\ pc = "return"
    /\ cwd' = Parent(cwd)
    /\ outcomes' = ReturnValue
    /\ pc' = NextPc(pc, platform)
    /\ UNCHANGED <<res, ser, env, budget, calls, i, fs, sem, proc, pcwd, loop,
                   written, rfailed, error, dirty>>

(***************************************************************************)
(* Actions of the job processes: do_work(func)                             *)
(***************************************************************************)
\* Variant: acquire returns without taking a permit.
acquire_free(s) == s

\* The value of the semaphore after sem.acquire() has returned.
acquire(s) == s - 1

\* Variant: the permit is not given back.
release_skipped(s) == s

\* The value of the semaphore after sem.release().
release(s) == s + 1

\* Variant: the jobs are threads of one process and share its directory.
chdir_shared(dirs, j, dir) == [k \in DOMAIN dirs |-> dir]

\* os.chdir(dir) in the process of job j: every job is a process of its
\* own (MP.Process), so only that process's working directory changes.
chdir(dirs, j, dir) == [dirs EXCEPT ![j] = dir]

\* sem.acquire() returns and func(**kwargs) is entered: os.chdir(<category>)
\* where the function has one.
Acquire(j) ==
    /\ proc[j] = "acquire"
    /\ sem > 0
    /\ sem' = acquire(sem)
    /\ proc' = [proc EXCEPT ![j] = "running"]
    /\ pcwd' = IF JobDir(batch[j]) = <<>>
               THEN pcwd
               ELSE chdir(pcwd, j, pcwd[j] \o JobDir(batch[j]))
    /\ UNCHANGED <<res, ser, env, budget, calls, pc, i, cwd, fs, loop,
                   written, rfailed, outcomes, hist>>

\* The artifacts the loop of f can turn to next, done being those it is
\* through with: a loop over sorted(...) takes the lowest rank, the order of
\* the other loops (over a set or a dict) is not defined.
NextArtifacts(f, d, done) ==
    LET rest == JobArtifacts(f, d) \ done
    IN  IF JobSorted(f)
        THEN {a \in rest : \A b \in rest : a.rank <= b.rank}
        ELSE rest

\* with open(fname, 'w') as f: f.write(...) for the next artifact of job j,
\* in the directory its process is in.  open may raise, and leaves no file;
\* f.write or the close may raise, and then open has created the file.  With
\* an unknown graph type the first pass of the loop raises NameError instead.
Write(j) ==
    /\ proc[j] = "running"
    /\ loop[j].cur = <<>>
    /\ \/ /\ JobMustRaise(batch[j], data)
          /\ proc' = [proc EXCEPT ![j] = "raised"]
          /\ UNCHANGED <<fs, written, loop, budget>>
       \/ /\ ~JobMustRaise(batch[j], data)
          /\ \E a \in NextArtifacts(batch[j], data, loop[j].done) :
                \/ /\ fs' = fs \cup {pcwd[j] \o <<a.out>>}
                   /\ written' = written \cup
                        {[job |-> j, path |-> pcwd[j] \o <<a.out>>]}
                   /\ loop' = [loop EXCEPT ![j].cur = <<a>>]
                   /\ UNCHANGED <<proc, budget>>
                \/ /\ budget > 0
                   /\ budget' = budget - 1
                   /\ proc' = [proc EXCEPT ![j] = "raised"]
                   /\ \E w \in SUBSET {pcwd[j] \o <<a.out>>} :
                        /\ fs' = fs \cup w
                        /\ written' = written \cup
                                {[job |-> j, path |-> x] : x \in w}
                   /\ UNCHANGED loop
    /\ UNCHANGED <<res, ser, env, calls, pc, i, cwd, sem, pcwd, rfailed,
                   outcomes, hist>>

\* call(cmd) for the artifact just written: the renderer writes the image
\* and exits 0, or exits non-zero (it must when its input file does not
\* exist), or cannot be launched (call raises), or never exits (call has no
\* timeout).  The value call returns is discarded.
Render(j) ==
    /\ proc[j] = "running"
    /\ loop[j].cur # <<>>
    /\ LET a == loop[j].cur[1]
           through == [loop EXCEPT ![j] = [done |-> @.done \cup {a},
                                           cur |-> <<>>]]
       IN  \/ /\ pcwd[j] \o <<a.src>> \in fs
              /\ fs' = fs \cup {pcwd[j] \o <<a.img>>}
              /\ written' = written \cup
                    {[job |-> j, path |-> pcwd[j] \o <<a.img>>]}
              /\ loop' = through
              /\ UNCHANGED <<proc, rfailed, budget>>
           \/ /\ pcwd[j] \o <<a.src>> \notin fs
              /\ rfailed' = rfailed \cup {[job |-> j, src |-> a.src]}
              /\ loop' = through
              /\ UNCHANGED <<proc, fs, written, budget>>
           \/ /\ pcwd[j] \o <<a.src>> \in fs
              /\ budget > 0
              /\ budget' = budget - 1
              /\ rfailed' = rfailed \cup {[job |-> j, src |-> a.src]}
              /\ loop' = through
              /\ UNCHANGED <<proc, fs, written>>
           \/ /\ budget > 0
              /\ budget' = budget - 1
              /\ \E st \in {"raised", "stalled"} :
                    proc' = [proc EXCEPT ![j] = st]
              /\ UNCHANGED <<fs, written, rfailed, loop>>
    /\ UNCHANGED <<res, ser, env, calls, pc, i, cwd, sem, pcwd, outcomes,
                   hist>>

\* The loop of the function is through: os.chdir('..') where the function
\* changed directory, the function returns, then sem.release().  Release is
\* not reached when func raised or never returns.
Finish(j) ==
    /\ proc[j] = "running"
    /\ loop[j].cur = <<>>
    /\ ~JobMustRaise(batch[j], data)
    /\ NextArtifacts(batch[j], data, loop[j].done) = {}
    /\ pcwd' = IF JobDir(batch[j]) # <<>>
               THEN chdir(pcwd, j, Parent(pcwd[j]))
               ELSE pcwd
    /\ proc' = [proc EXCEPT ![j] = "returned"]
    /\ sem' = release(sem)
    /\ UNCHANGED <<res, ser, env, budget, calls, pc, i, cwd, fs, loop,
                   written, rfailed, outcomes, hist>>

\* func(**kwargs), statement by statement
Work(j) == Write(j) \/ Render(j) \/ Finish(j)

do_work(j) == Acquire(j) \/ Work(j)

(***************************************************************************)
(* Specifications                                                          *)
(***************************************************************************)
\* No serializer call is observed.
SerIdle ==
    /\ which = "none"
    /\ input = <<>>
    /\ ind = 0
    /\ text = <<>>
    /\ spc = "idle"

InitDispatcher ==
    /\ calls = 0
    /\ pc = "idle"
    /\ i = 1
    /\ cwd = <<>>
    /\ fs = {}
    /\ sem = 0
    /\ proc = [j \in 1..Len(batch) |-> "pending"]
    /\ pcwd = [j \in 1..Len(batch) |-> <<>>]
    /\ loop = [j \in 1..Len(batch) |-> NoProgress]
    /\ written = {}
    /\ rfailed = {}
    /\ outcomes = {}
    /\ error = "none"
    /\ dirty = FALSE

\* No results diagram function is observed.
ResIdle ==
    /\ model = <<>>
    /\ groups = <<>>
    /\ rpc = "idle"

InitCommon == InitDispatcher /\ SerIdle /\ ResIdle

Init ==
    /\ platform \in Platforms
    /\ cpu \in 1..MaxCpu
    /\ data = DispatchData
    /\ batch = gvizFunctions
    /\ budget = MaxFaults
    /\ InitCommon

SetupNext ==
    \/ Call
    \/ RemoveOld
    \/ MkdirImages
    \/ ChdirImages
    \/ MakedirsCommodities
    \/ MakedirsProcesses
    \/ MakedirsResults

Next ==
    \/ SetupNext
    \/ ExternalWrite
    \/ SeqRun
    \/ CreateSemaphore
    \/ StartProcess
    \/ JoinProcess
    \/ Return
    \/ \E j \in Jobs : do_work(j)

Spec == Init /\ [][Next]_vars

\* The runs that differ in options.graph_type only: with "other" the
\* per-technology function raises NameError, with "explicit_vintages" the
\* renderer does not find its input file and exits non-zero.
DispatchRuns == {[DispatchData EXCEPT !.graph_type = g] : g \in GraphTypes}

\* Both branches in an environment that injects no fault: what goes wrong
\* follows from the options alone.
CalmInit ==
    /\ platform \in Platforms
    /\ cpu \in 1..MaxCpu
    /\ data \in DispatchRuns
    /\ batch = gvizFunctions
    /\ budget = 0
    /\ InitCommon

CalmNext ==
    \/ SetupNext
    \/ SeqRun
    \/ CreateSemaphore
    \/ StartProcess
    \/ JoinProcess
    \/ Return
    \/ \E j \in Jobs : do_work(j)

CalmSpec == CalmInit /\ [][CalmNext]_vars

\* The sequential branch ('win' in sys.platform) with injected faults and
\* files written into the tree between two calls.
SeqInit ==
    /\ platform = win32
    /\ cpu = 1
    /\ data = DispatchData
    /\ batch = gvizFunctions
    /\ budget = MaxFaults
    /\ InitCommon

SeqNext == SetupNext \/ ExternalWrite \/ SeqRun \/ Return

SeqSpec == SeqInit /\ [][SeqNext]_vars

\* The multi-process branch on its own: a platform whose name does not
\* contain 'win'.
MPNext ==
    \/ SetupNext
    \/ CreateSemaphore
    \/ StartProcess
    \/ JoinProcess
    \/ Return
    \/ \E j \in Jobs : do_work(j)

MPCaller ==
    \/ RemoveOld
    \/ MkdirImages
    \/ ChdirImages
    \/ MakedirsCommodities
    \/ MakedirsProcesses
    \/ MakedirsResults
    \/ CreateSemaphore
    \/ StartProcess
    \/ JoinProcess
    \/ Return

\* The caller runs when it can, and the operating system schedules every
\* started process that is able to take a step.
Fairness ==
    /\ WF_vars(MPCaller)
    /\ \A j \in 1..Len(gvizFunctions) : WF_vars(do_work(j))

\* No fault is injected and the options are those of DispatchData: every
\* diagram function returns.
MPInit ==
    /\ platform = linux
    /\ cpu \in 1..MaxCpu
    /\ data = DispatchData
    /\ batch = gvizFunctions
    /\ budget = 0
    /\ InitCommon

FairSpec == MPInit /\ [][MPNext]_vars /\ Fairness

\* The environment injects up to MaxFaults faults into the statements of the
\* job processes and of the caller.
FaultyInit ==
    /\ platform = linux
    /\ cpu \in 1..MaxCpu
    /\ data = DispatchData
    /\ batch = gvizFunctions
    /\ budget = MaxFaults
    /\ InitCommon

FaultyFairSpec == FaultyInit /\ [][MPNext]_vars /\ Fairness

\* The sequential branch on the whole tuple of diagram functions, over the
\* domain data sets, without injected faults.
PathInit ==
    /\ platform = win32
    /\ cpu = 1
    /\ data \in RichData
    /\ batch = gvizFunctions
    /\ budget = 0
    /\ InitCommon

PathNext == SetupNext \/ SeqRun \/ Return

PathSpec == PathInit /\ [][PathNext]_vars

(***************************************************************************)
(* The serializers on their own                                            *)
(***************************************************************************)
\* Identifiers 'a', 'bc' (nodes, edge sources) and 'd', 'ef' (edge
\* destinations); attributes None, the empty string, 'x' and, for nodes, 'y'.
NodeIds == {<<97>>, <<98, 99>>}
DestIds == {<<100>>, <<101, 102>>}
NodeAttrs == {None, <<>>, <<120>>, <<121>>}
EdgeAttrs == {None, <<>>, <<120>>}

\* (id, attributes) and (source, destination, attributes) tuples
NodeEntries == NodeIds \X NodeAttrs
EdgeEntries == NodeIds \X DestIds \X EdgeAttrs

\* Entries of the wrong shape: ('a',) and ('a', 'x', 'x') handed to
\* create_text_nodes, ('a', 'd') and ('a', 'd', 'x', 'x') to create_text_edges.
MalformedNodes == {<<<<97>>>>, <<<<97>>, <<120>>, <<120>>>>}
MalformedEdges ==
    {<<<<97>>, <<100>>>>, <<<<97>>, <<100>>, <<120>>, <<120>>>>}

\* The collections of at most MaxLen entries, in every order and with
\* repeated entries.
Collections(E) == UNION {[1..n -> E] : n \in 0..MaxLen}

disp == <<env, budget, calls, pc, i, cwd, fs, sem, proc, pcwd, loop, written,
          rfailed, outcomes, hist>>

\* text = create_text_nodes(nodes, indent), or the call raises
TextNodes ==
    /\ spc = "called"
    /\ which = "nodes"
    /\ IF unpacks(input, 2)
       THEN /\ text' = create_text_nodes(input, ind)
            /\ spc' = "returned"
       ELSE /\ spc' = "raised"
            /\ UNCHANGED text
    /\ UNCHANGED <<which, input, ind, disp, res>>

\* text = create_text_edges(edges, indent), or the call raises
TextEdges ==
    /\ spc = "called"
    /\ which = "edges"
    /\ IF unpacks(input, 3)
       THEN /\ text' = create_text_edges(input, ind)
            /\ spc' = "returned"
       ELSE /\ spc' = "raised"
            /\ UNCHANGED text
    /\ UNCHANGED <<which, input, ind, disp, res>>

SerInit ==
    /\ platform = linux
    /\ cpu = 1
    /\ data = DispatchData
    /\ batch = gvizFunctions
    /\ budget = 0
    /\ InitDispatcher
    /\ which \in {"nodes", "edges"}
    /\ input \in Collections(IF which = "nodes"
                             THEN NodeEntries \cup MalformedNodes
                             ELSE EdgeEntries \cup MalformedEdges)
    /\ ind \in 0..MaxIndent
    /\ text = <<>>
    /\ spc = "called"
    /\ ResIdle

SerNext == TextNodes \/ TextEdges

SerSpec == SerInit /\ [][SerNext]_vars

(***************************************************************************)
(* The results diagram functions on their own                              *)
(***************************************************************************)
FlowValues == {0} \cup (epsilon - 1)..MaxFlow
CapValues == {0, 1}

\* The solved models: V_Cap, the flows EI and EO, the emission EmiO of the
\* technology that emits, and the two names that are free.
Models ==
    [cap : [ResTechs -> CapValues], EI : [InPairs -> FlowValues],
     EO : [OutPairs -> FlowValues], Emi : [{"T"} -> FlowValues],
     idle : {"u", "T"}, emitted : {"e", "1"}]

\* The state of the caller that a diagram function called on its own leaves
\* alone.
caller == <<env, calls, pc, i, sem, proc, pcwd, outcomes, hist>>

\* The place of diagram function f in gvizFunctions.
ResJob(f) == CHOOSE j \in 1..Len(gvizFunctions) : gvizFunctions[j] = f

\* os.chdir(<category>), the first statement of function f that touches the
\* tree: FileNotFoundError when the working directory has no such directory.
EnterFunction(f, called, entered) ==
    /\ rpc = called
    /\ IF cwd \o JobDir(f) \in fs
       THEN cwd' = cwd \o JobDir(f) /\ rpc' = entered
       ELSE rpc' = "raised" /\ UNCHANGED cwd
    /\ UNCHANGED <<model, groups, ser, caller, budget, fs, loop, written,
                   rfailed>>

\* One pass of the loop of job j that writes: the sets are built, then
\*     with open(fname + 'dot', 'w') as f: f.write(...)
\*     call(('dot', '-T' + ffmt, '-o' + fname + ffmt, fname + 'dot'))
\* The renderer writes the image and exits 0, or exits non-zero (the value
\* of call is discarded).  Or the pass ends the function: open raises and
\* leaves the tree as it was, f.write raises after open created or emptied
\* the file, call raises or the renderer never exits after the file was
\* written in full.  The sets are g once the file is written, gw when the
\* write raised and go when open raised; the function is at `after` when the
\* pass is through.
Pass(j, a, go, gw, g, after) ==
    LET out == cwd \o <<a.out>>
        img == cwd \o <<a.img>>
    IN  \/ /\ fs' = fs \cup {out, img}
           /\ written' = written \cup {[job |-> j, path |-> out],
                                       [job |-> j, path |-> img]}
           /\ groups' = g
           /\ loop' = [loop EXCEPT ![j].done = @ \cup {a}]
           /\ rpc' = after
           /\ UNCHANGED <<rfailed, budget>>
        \/ /\ budget > 0
           /\ budget' = budget - 1
           /\ fs' = fs \cup {out}
           /\ written' = written \cup {[job |-> j, path |-> out]}
           /\ rfailed' = rfailed \cup {[job |-> j, src |-> a.src]}
           /\ groups' = g
           /\ loop' = [loop EXCEPT ![j].done = @ \cup {a}]
           /\ rpc' = after
        \/ /\ budget > 0
           /\ budget' = budget - 1
           /\ \/ /\ rpc' = "raised"
                 /\ groups' = go
                 /\ UNCHANGED <<fs, written, loop>>
              \/ /\ rpc' = "raised"
                 /\ groups' = gw
                 /\ fs' = fs \cup {out}
                 /\ written' = written \cup {[job |-> j, path |-> out]}
                 /\ UNCHANGED loop
              \/ /\ rpc' \in {"raised", "stalled"}
                 /\ groups' = g
                 /\ fs' = fs \cup {out}
                 /\ written' = written \cup {[job |-> j, path |-> out]}
                 /\ loop' = [loop EXCEPT ![j].cur = <<a>>]
           /\ UNCHANGED rfailed

\* os.chdir('..') as the last statement of a function whose loop is through.
ReturnFunction ==
    /\ cwd' = Parent(cwd)
    /\ rpc' = "returned"
    /\ UNCHANGED <<model, groups, ser, caller, budget, fs, loop, written,
                   rfailed>>

\* The periods of M.time_optimize that CreateMainResultsDiagram has not
\* drawn yet.
MainTodo ==
    {pp \in data.periods :
        Stem(fname_results(pp), data)
            \notin loop[ResJob("CreateMainResultsDiagram")].done}

\* os.chdir('results') in CreateMainResultsDiagram
EnterMainResults ==
    EnterFunction("CreateMainResultsDiagram", "main_called", "main_loop")

\* One iteration of `for pp in M.time_optimize` in CreateMainResultsDiagram,
\* the set being ordered.
MainResults ==
    /\ rpc \in {"main_loop", "main"}
    /\ MainTodo # {}
    /\ LET pp == CHOOSE x \in MainTodo : \A y \in MainTodo : x <= y
       IN  Pass(ResJob("CreateMainResultsDiagram"),
                Stem(fname_results(pp), data),
                MainResultsGroups(model, pp), MainResultsGroups(model, pp),
                MainResultsGroups(model, pp), "main")
    /\ UNCHANGED <<model, ser, caller, cwd>>

ReturnMainResults ==
    /\ rpc \in {"main_loop", "main"}
    /\ MainTodo = {}
    /\ ReturnFunction

\* The (period, carrier) pairs CreateCommodityPartialResults has not drawn
\* yet.
CommodityTodo ==
    {pc2 \in data.horizon \X used_carriers(model) :
        Stem(fname_rc(pc2[2], pc2[1]), data)
            \notin loop[ResJob("CreateCommodityPartialResults")].done}

\* os.chdir('commodities') in CreateCommodityPartialResults
EnterCommodityResults ==
    EnterFunction("CreateCommodityPartialResults", "commodity_called",
                  "commodity_loop")

\* One iteration of `for l_carrier in used_carriers` inside
\* `for l_per in M.time_horizon` in CreateCommodityPartialResults: the
\* periods in their order, the carriers in the order of a Python set.
CommodityResults ==
    /\ rpc \in {"commodity_loop", "commodity"}
    /\ \E pc2 \in CommodityTodo :
        /\ \A y \in CommodityTodo : pc2[1] <= y[1]
        /\ Pass(ResJob("CreateCommodityPartialResults"),
                Stem(fname_rc(pc2[2], pc2[1]), data),
                CommodityGroups(model, pc2[2], pc2[1]),
                CommodityGroups(model, pc2[2], pc2[1]),
                CommodityGroups(model, pc2[2], pc2[1]), "commodity")
    /\ UNCHANGED <<model, ser, caller, cwd>>

ReturnCommodityResults ==
    /\ rpc \in {"commodity_loop", "commodity"}
    /\ CommodityTodo = {}
    /\ ReturnFunction

\* The states in which one diagram function is called on its own: the tree
\* holds the run directory and its three subdirectories, as
\* CreateModelDiagrams leaves them for its jobs, and the caller stands in the
\* run directory or, one level too high, in the start directory.
InitStandalone ==
    /\ platform = linux
    /\ cpu = 1
    /\ data = DispatchData
    /\ batch = gvizFunctions
    /\ budget \in {0, MaxFaults}
    /\ calls = 0
    /\ pc = "idle"
    /\ i = 1
    /\ cwd \in {<<>>, <<images_dir>>}
    /\ fs = RunTree
    /\ sem = 0
    /\ proc = [j \in 1..Len(batch) |-> "pending"]
    /\ pcwd = [j \in 1..Len(batch) |-> <<>>]
    /\ loop = [j \in 1..Len(batch) |-> NoProgress]
    /\ written = {}
    /\ rfailed = {}
    /\ outcomes = {}
    /\ error = "none"
    /\ dirty = FALSE
    /\ SerIdle

ResInit ==
    /\ InitStandalone
    /\ model \in Models
    /\ groups = <<>>
    /\ rpc \in {"main_called", "commodity_called"}

ResNext ==
    \/ EnterMainResults
    \/ MainResults
    \/ ReturnMainResults
    \/ EnterCommodityResults
    \/ CommodityResults
    \/ ReturnCommodityResults

ResSpec == ResInit /\ [][ResNext]_vars

(***************************************************************************)
(* The loop of CreatePartialSegmentsDiagram on its own                     *)
(***************************************************************************)
\* The (t, p, v, i, o) combinations the loops visit: technology T in period
\* 1 with two active vintages, turning carrier c into the carriers 1 and u.
SegScopes == {"T"} \X {1} \X {1, 2} \X {"c"} \X {"1", "u"}

\* open(name, 'w') ... f.write(...): the file holds what was written last.
write(files, name, content) ==
    {f \in files : f.name # name} \cup {[name |-> name, holds |-> content]}

\* os.chdir('results') in CreatePartialSegmentsDiagram
EnterSegments ==
    EnterFunction("CreatePartialSegmentsDiagram", "segments_called",
                  "segments")

\* One iteration of `for o in ProcessOutputsByInput(p, t, v, i)`: the sets
\* are built from the time slices with a flow, nothing is written when there
\* is none (`if not snodes: continue`), else the graph of this input/output
\* pair is written to results_<t>_p<p>v<v>_segments.dot and the renderer is
\* called on it.  The order of the iterations is that of Python sets: any.
\* When f.write raises the file is left with what was written until then,
\* not the graph of any pair.
SegmentsStep ==
    /\ rpc = "segments"
    /\ \E sc \in groups.todo :
        IF model[sc] = 0
        THEN /\ groups' = [groups EXCEPT !.todo = @ \ {sc}]
             /\ UNCHANGED <<rpc, budget, fs, loop, written, rfailed>>
        ELSE LET name == fname_segments(sc[1], sc[2], sc[3]) \o "dot"
                 left(files) == [todo |-> groups.todo \ {sc}, files |-> files]
             IN  Pass(ResJob("CreatePartialSegmentsDiagram"),
                      [Stem(fname_segments(sc[1], sc[2], sc[3]), data)
                          EXCEPT !.pass = <<sc[4], sc[5]>>],
                      left(groups.files),
                      left(write(groups.files, name, <<>>)),
                      left(write(groups.files, name, sc)),
                      "segments")
    /\ UNCHANGED <<model, ser, caller, cwd>>

ReturnSegments ==
    /\ rpc = "segments"
    /\ groups.todo = {}
    /\ ReturnFunction

SegInit ==
    /\ InitStandalone
    /\ model \in [SegScopes -> FlowValues]
    /\ groups = [todo |-> SegScopes, files |-> {}]
    /\ rpc = "segments_called"

SegNext == EnterSegments \/ SegmentsStep \/ ReturnSegments

SegSpec == SegInit /\ [][SegNext]_vars

TypeOK ==
    /\ platform \in Platforms
    /\ cpu \in 1..MaxCpu
    /\ budget \in 0..MaxFaults
    /\ calls \in 0..MaxCalls
    /\ sem \in 0..MaxCpu
    /\ \A j \in Jobs :
         proc[j] \in {"pending", "acquire", "running", "stalled",
                      "returned", "raised"}
    /\ dirty \in BOOLEAN
    /\ error \in {"none", "exists", "mkdir", "mk_commodities", "mk_processes",
                  "mk_results", "seq"}

(***************************************************************************)
(* Properties                                                              *)
(***************************************************************************)
Running == {j \in Jobs : proc[j] \in {"running", "stalled"}}
ImagesTree == {p \in fs : IsUnder(p, <<images_dir>>)}
SetupPcs == {"exists", "mkdir", "chdir", "mk_commodities", "mk_processes",
             "mk_results"}
DispatchPcs == {"seq", "sem", "start", "join", "return"}

\* C1: in the multi-process branch the number of jobs that hold the
\* semaphore and execute their diagram function never exceeds cpu_count().
C1_RunningBounded == Cardinality(Running) <= cpu

\* More jobs than permits: the gate is full and a job waits at acquire.
C1_Witness ==
    /\ ~IsWin(platform)
    /\ Cardinality(Running) = cpu
    /\ \E j \in Jobs : proc[j] = "acquire"

\* C2: in the multi-process branch, once a job has raised inside its diagram
\* function, the sibling jobs still finish and CreateModelDiagrams returns.
C2_SiblingsComplete ==
    (pc \in {"start", "join"} /\ \E j \in Jobs : proc[j] = "raised")
        ~> (pc = "returned")

\* C3: CreateModelDiagrams has returned normally only if every job of the
\* batch has reached a terminal state, in either branch.
C3_ReturnAfterAllJobs ==
    pc = "returned" =>
        \A j \in Jobs : proc[j] \in {"returned", "raised"}

\* The multi-process branch has returned after a batch in which jobs had to
\* queue for a permit and one of them crashed.
C3_Witness ==
    /\ pc = "returned"
    /\ ~IsWin(platform)
    /\ cpu < Len(batch)
    /\ \E j \in Jobs : proc[j] = "raised"

\* C4: when the batch is complete the caller holds exactly one terminal
\* outcome per job.
C4_OneOutcomePerJob ==
    pc = "returned" => Cardinality(outcomes) = Len(batch)

\* C5: a job for which the renderer exited non-zero is recorded as failed,
\* and the result of the completed batch shows a failure.
C5_RendererFailureRecorded ==
    /\ \A r \in rfailed : proc[r.job] # "returned"
    /\ (pc = "returned" /\ rfailed # {}) => outcomes # {}

\* C6: whichever branch is taken, when the call has ended after dispatching,
\* every job of the batch has been run and every job that returned has left
\* its files: the sequential branch runs the jobs the multi-process one runs.
C6_BranchesRunSameJobs ==
    (pc \in {"returned", "raised"} /\ \E j \in Jobs : proc[j] # "pending") =>
        \A j \in Jobs :
            /\ proc[j] \in {"returned", "raised"}
            /\ proc[j] = "returned" =>
                 \A a \in JobArtifacts(batch[j], data) :
                    [job |-> j,
                     path |-> Abs(<<images_dir>>, batch[j], a.out)]
                        \in written

\* C7: no directory statement runs once a job has been started, and while
\* the jobs are dispatched the run directory and its three subdirectories
\* exist and hold nothing but what the jobs of this call have written.
C7_DirectoriesBeforeJobs ==
    /\ pc \in SetupPcs => \A j \in Jobs : proc[j] = "pending"
    /\ pc \in DispatchPcs =>
        /\ RunTree \subseteq fs
        /\ ImagesTree \ RunTree \subseteq {w.path : w \in written}

\* A job is executing in a run that found an old run directory to remove.
C7_Witness ==
    /\ dirty
    /\ \E j \in Jobs : proc[j] = "running"

\* C8: whatever was in the tree before, when the preparation is complete the
\* run directory holds exactly the three empty category subdirectories.
C8_RefreshIdempotent ==
    (pc = "sem" \/ (pc = "seq" /\ \A j \in Jobs : proc[j] = "pending")) =>
        ImagesTree = RunTree

\* The second preparation is complete and it started on a tree that held
\* the previous run's files or files written in between.
C8_Witness ==
    /\ calls = 2
    /\ dirty
    /\ pc = "sem" \/ (pc = "seq" /\ \A j \in Jobs : proc[j] = "pending")
    /\ ImagesTree = RunTree

\* C9: if a directory statement raised, the call ended with that error, no
\* job was started and nothing was written.
C9_SetupFailureAborts ==
    error \in SetupPcs =>
        /\ pc = "raised"
        /\ \A j \in Jobs : proc[j] = "pending"
        /\ written = {}

\* The last makedirs failed after the other directories had been created.
C9_Witness ==
    /\ error = "mk_results"
    /\ <<images_dir, "processes">> \in fs

\* C10: no file is written by two different jobs.
C10_JobPathsDisjoint ==
    \A w1, w2 \in written : w1.path = w2.path => w1.job = w2.job

\* All nine functions have run, and two of them wrote into results/.
C10_Witness ==
    /\ pc = "returned"
    /\ \A j \in Jobs : proc[j] = "returned"
    /\ \E w1, w2 \in written :
        /\ w1.job # w2.job
        /\ Len(w1.path) = 3 /\ Len(w2.path) = 3
        /\ w1.path[2] = "results" /\ w2.path[2] = "results"

\* C11: for both layouts, once the per-technology job has returned, every
\* technology with data (processes with inputs and outputs) has its description in processes/process_<tech>.dot,
\* and the renderer found that file as its input.
C11_ProcessDotPath ==
    \A j \in Jobs :
        (/\ batch[j] = "CreateProcessPartialGraphs"
         /\ proc[j] = "returned"
         /\ data.carriers # {}
         /\ data.graph_type \in {"separate_vintages", "explicit_vintages"}) =>
            \A t \in data.techs \cap data.techdata :
                /\ [job |-> j,
                    path |-> <<images_dir, "processes",
                               "process_" \o t \o ".dot">>] \in written
                /\ [job |-> j, src |-> "process_" \o t \o ".dot"]
                       \notin rfailed


\* C12: when the domain holds no relationship at all (no technology occurs in
\* g_processInputs, hence no carrier and no activity), every scope of every
\* diagram function is empty: nothing is written, no renderer call is made
\* and nothing is raised.
C12_EmptyScopeSkipped ==
    (/\ data.techdata = {}
     /\ data.carriers = {}
     /\ data.graph_type \in {"separate_vintages", "explicit_vintages"}) =>
        /\ written = {}
        /\ rfailed = {}
        /\ error = "none"

\* C13: a renderer that never exits does not keep its permit for ever: once
\* a job is stalled in a renderer call, every job of the batch is eventually
\* let through the semaphore (unless a job raised, which loses a permit too).
C13_StallFreesSlot ==
    (\E j \in Jobs : proc[j] = "stalled")
        ~> (\/ \A j \in Jobs : proc[j] \notin {"pending", "acquire"}
            \/ \E j \in Jobs : proc[j] = "raised")

\* C14: in the multi-process branch and in the sequential one, every file a
\* job writes lies directly in the run directory followed by the job's own
\* category directory, whatever directory changes the sibling jobs make.
C14_OwnCategoryDirectory ==
    \A w \in written :
        SubSeq(w.path, 1, Len(w.path) - 1)
            = <<images_dir>> \o JobDir(batch[w.job])

\* Two jobs are inside their diagram functions at the same time, in
\* different working directories, and files have been written.
C14_Witness ==
    /\ written # {}
    /\ \E j, k \in Jobs :
        /\ proc[j] = "running" /\ proc[k] = "running"
        /\ pcwd[j] = <<images_dir>>
        /\ pcwd[k] = <<images_dir, "commodities">>

\* C15: a renderer call that exited non-zero stops nothing: the call of
\* CreateModelDiagrams goes on without an error, and every function that has
\* returned has written the description of each of its scopes and has called
\* the renderer on it.
C15_RendererFailureIsolated ==
    rfailed # {} =>
        /\ error = "none"
        /\ \A j \in Jobs : proc[j] \in {"pending", "returned"}
        /\ \A j \in Jobs : proc[j] = "returned" =>
            \A a \in JobArtifacts(batch[j], data) :
                /\ [job |-> j, path |-> Abs(<<images_dir>>, batch[j], a.out)]
                       \in written
                /\ \/ [job |-> j, path |-> Abs(<<images_dir>>, batch[j], a.img)]
                          \in written
                   \/ [job |-> j, src |-> a.src] \in rfailed

\* The whole batch has returned although the renderer failed on the first
\* of two technologies of the per-technology function.
C15_Witness ==
    /\ pc = "returned"
    /\ \A j \in Jobs : proc[j] = "returned"
    /\ Cardinality(rfailed) >= 2
    /\ \E w \in written : batch[w.job] = "CreatePartialSegmentsDiagram"

(***************************************************************************)
(* Properties of the serializers                                           *)
(***************************************************************************)
Range(seq) == {seq[k] : k \in 1..Len(seq)}

\* The lines of a returned text: the pieces between the separators, each
\* separator being a newline followed by n tabs.
TextLines(t, n) ==
    LET nl == {k \in 1..Len(t) : t[k] = 10}
        cnt == Cardinality(nl)
        cut(r) == IF r > cnt THEN Len(t) + 1
                  ELSE CHOOSE k \in nl :
                        Cardinality({m \in nl : m < k}) = r - 1
        start(r) == IF r = 1 THEN 1 ELSE cut(r - 1) + 1 + n
    IN  [r \in 1..(cnt + 1) |-> SubSeq(t, start(r), cut(r) - 1)]

\* The column of the first '[' of a line, 0 if it has none.
BracketCol(line) ==
    LET cols == {k \in 1..Len(line) : line[k] = 91}
    IN  IF cols = {} THEN 0
        ELSE CHOOSE k \in cols : \A m \in cols : k <= m

\* The longest first field among the entries of a set, 0 for the empty set.
LongestId(E) == IF E = {} THEN 0 ELSE max({Len(e[1]) : e \in E})

Returned(w) == spc = "returned" /\ which = w

\* The serializer w applied to the collection c.
create_text(w, c, n) ==
    IF w = "nodes" THEN create_text_nodes(c, n) ELSE create_text_edges(c, n)

\* The collections of at most MaxLen entries that hold the entries of c,
\* in any order and with any repetitions.
Rearrangements(c) ==
    UNION {{f \in [1..n -> Range(c)] : Range(f) = Range(c)} : n \in 0..MaxLen}

\* C16 as stated: the text returned for a non-empty collection of nodes or
\* edges has exactly one line for every distinct tuple of the collection,
\* however often the tuple is repeated; tuples that differ in their
\* attributes only are distinct.
C16_OneLinePerEntry ==
    (spc = "returned" /\ input # <<>>) =>
        LET lines == TextLines(text, ind)
        IN  /\ Len(lines) = Cardinality(Range(input))
            /\ \A k, m \in 1..Len(lines) : lines[k] = lines[m] => k = m

\* C16, amended: the text returned for a non-empty collection of nodes or
\* edges has exactly one line for every distinct tuple of the collection,
\* however often the tuple is repeated, where two tuples count as one when
\* they have the same identifiers and neither has attributes, the attributes
\* being None in one and the empty string in the other; tuples that differ
\* in their attributes otherwise are distinct.
C16_OneLinePerEntryOrBlank ==
    (spc = "returned" /\ input # <<>>) =>
        LET lines == TextLines(text, ind)
            blank(e) == [e EXCEPT ![Len(e)] =
                            IF @ = <<>> THEN None ELSE @]
        IN  /\ Len(lines) = Cardinality({blank(e) : e \in Range(input)})
            /\ \A k, m \in 1..Len(lines) : lines[k] = lines[m] => k = m

\* A collection has been serialized that holds one identifier three times:
\* with attributes, with None and with the empty string; the text has two
\* lines.
C16_Witness ==
    /\ Returned("nodes")
    /\ \E k, m, n \in 1..Len(input) :
        /\ input[k][1] = input[m][1] /\ input[m][1] = input[n][1]
        /\ input[k][2] = None /\ input[m][2] = <<>>
        /\ input[n][2] \notin {None, <<>>}
    /\ Len(TextLines(text, ind)) = 2

\* C17: the returned text depends on the set of entries only: every
\* collection with the same entries, in any order and with any repetitions,
\* gives the same text, character for character.
C17_OrderIndependent ==
    spc = "returned" =>
        \A c \in Rearrangements(input) : create_text(which, c, ind) = text

\* Three different edges have been serialized, given with a repetition-free
\* collection whose first entry has source 'bc' and whose last has source
\* 'a': the first line of the text is the one of a later entry.
C17_Witness ==
    /\ Returned("edges")
    /\ Len(input) = 3
    /\ Cardinality(Range(input)) = 3
    /\ input[1][1] = <<98, 99>>
    /\ input[3][1] = <<97>>
    /\ SubSeq(text, 1, 3) = <<34, 97, 34>>

\* '// no nodes in this section' and '// no edges in this section'
PlaceholderNodes ==
    <<47, 47, 32, 110, 111, 32, 110, 111, 100, 101, 115, 32, 105, 110,
      32, 116, 104, 105, 115, 32, 115, 101, 99, 116, 105, 111, 110>>
PlaceholderEdges ==
    <<47, 47, 32, 110, 111, 32, 101, 100, 103, 101, 115, 32, 105, 110,
      32, 116, 104, 105, 115, 32, 115, 101, 99, 116, 105, 111, 110>>

\* C18: for an empty collection and every indent, create_text_nodes returns
\* exactly '// no nodes in this section' and create_text_edges returns exactly
\* '// no edges in this section'.
C18_EmptyPlaceholder ==
    (spc = "returned" /\ input = <<>>) =>
        text = IF which = "nodes" THEN PlaceholderNodes ELSE PlaceholderEdges

\* create_text_nodes has returned for an empty collection and an indent > 0.
C18_Witness ==
    /\ Returned("nodes")
    /\ input = <<>>
    /\ ind > 0
    /\ Len(text) = 27

\* C19 as stated: in every line with attributes the quoted identifier is
\* padded to L + 2 columns, L being the longest identifier among the entries
\* that have attributes; the '[' follows one space later.
C19_PaddingOverAttributed ==
    Returned("nodes") =>
        \A line \in Range(TextLines(text, ind)) :
            BracketCol(line) # 0 =>
                BracketCol(line)
                    = LongestId({e \in Range(input) :
                                    e[2] \notin {None, <<>>}}) + 4

\* C19, amended: in every line with attributes the quoted identifier is
\* padded to L + 2 columns, L being the longest identifier among all entries
\* of the collection, with or without attributes.
C19_PaddingOverAll ==
    Returned("nodes") =>
        \A line \in Range(TextLines(text, ind)) :
            BracketCol(line) # 0 =>
                BracketCol(line) = LongestId(Range(input)) + 4

\* The longest identifier belongs to an entry without attributes, and an
\* entry with attributes has been rendered.
C19_Witness ==
    /\ Returned("nodes")
    /\ \E e \in Range(input) : e[2] \notin {None, <<>>}
    /\ LongestId({e \in Range(input) : e[2] \notin {None, <<>>}})
         < LongestId({e \in Range(input) : e[2] \in {None, <<>>}})

\* C20 as stated: every edge without attributes is rendered as the line
\* "<src>" -> "<dst>" ; with single spaces, whatever else is in the set.
C20_PlainEdgeLine ==
    Returned("edges") =>
        \A e \in Range(input) :
            e[3] \in {None, <<>>} =>
                (<<34>> \o e[1] \o <<34, 32, 45, 62, 32, 34>> \o e[2]
                 \o <<34, 32, 59>>)
                    \in Range(TextLines(text, ind))

\* C20, amended: every edge without attributes is rendered as the quoted
\* source, spaces up to the width of the longest quoted source of the set,
\* then ' -> ', the quoted destination without padding, one space and ';'.
C20_PlainEdgePaddedSource ==
    Returned("edges") =>
        \A e \in Range(input) :
            e[3] \in {None, <<>>} =>
                (<<34>> \o e[1] \o <<34>>
                 \o [k \in 1..(LongestId(Range(input)) - Len(e[1])) |-> 32]
                 \o <<32, 45, 62, 32, 34>> \o e[2] \o <<34, 32, 59>>)
                    \in Range(TextLines(text, ind))

\* An edge without attributes has been rendered next to an edge with a
\* longer source and a longer destination.
C20_Witness ==
    /\ Returned("edges")
    /\ \E e, g \in Range(input) :
        /\ e[3] \in {None, <<>>}
        /\ Len(e[1]) < Len(g[1])
        /\ Len(e[2]) < Len(g[2])

\* C21: a serializer called with a non-empty collection that holds an entry
\* of the wrong arity (not 2 fields for nodes, not 3 for edges) raises and
\* returns no text, whatever else the collection holds.
C21_MalformedRaises ==
    (/\ spc \in {"returned", "raised"}
     /\ \E k \in 1..Len(input) :
            Len(input[k]) # (IF which = "nodes" THEN 2 ELSE 3)) =>
        /\ spc = "raised"
        /\ text = <<>>

\* create_text_nodes has raised for a collection that holds a well-formed
\* entry and an entry with a surplus field.
C21_Witness ==
    /\ spc = "raised"
    /\ which = "nodes"
    /\ \E k, m \in 1..Len(input) : Len(input[k]) = 2 /\ Len(input[m]) = 3

(***************************************************************************)
(* Properties of the results diagrams                                      *)
(***************************************************************************)
\* C22 as stated: in the per-period results diagram, the edge of every
\* technology input and output flow, the flows into emission commodities
\* included, is in the in-use group, with a label, exactly when the flow is
\* at least 0.005 (5 thousandths), and otherwise in the unused group without
\* a label; a flow equal to the threshold is in use.
C22_ThresholdSplitsFlows ==
    rpc = "main" =>
        /\ \A pr \in InPairs :
            LET lab == <<pr[1], pr[2], flow_fmt(model.EI[pr])>>
                bare == <<pr[1], pr[2], None>>
            IN  /\ model.EI[pr] >= 5 <=> lab \in groups.eflowsi
                /\ model.EI[pr] >= 5 <=> bare \notin groups.dflows
        /\ \A pr \in OutPairs :
            LET lab == <<pr[1], pr[2], flow_fmt(model.EO[pr])>>
                bare == <<pr[1], pr[2], None>>
            IN  /\ model.EO[pr] >= 5 <=> lab \in groups.eflowso
                /\ model.EO[pr] >= 5 <=> bare \notin groups.dflows
        /\ \A pr \in {"T"} \X {model.emitted} :
            LET lab == <<pr[1], pr[2], flow_fmt(model.Emi[pr[1]])>>
                bare == <<pr[1], pr[2], None>>
            IN  /\ model.Emi[pr[1]] >= 5 <=> lab \in groups.eflowso
                /\ model.Emi[pr[1]] >= 5 <=> bare \notin groups.dflows
        /\ \A e \in groups.dflows : e[3] = None
        /\ \A e \in groups.eflowsi \cup groups.eflowso : e[3] # None

\* C22, amended: the edge of every flow between a technology and an input
\* or output carrier is in the in-use group, with a label, exactly when the
\* flow is at least 0.005, and otherwise in the unused group without a label;
\* a flow equal to the threshold is in use.  The edge of an emission flow is
\* in the in-use group, with a label, exactly when the flow is at least
\* 0.005; below that the flow puts no edge into any group (an edge between
\* the two names is then drawn only if the emission commodity is named like
\* an output carrier of the technology).
C22_ThresholdSplitsCarrierFlows ==
    rpc = "main" =>
        /\ \A pr \in InPairs :
            LET lab == <<pr[1], pr[2], flow_fmt(model.EI[pr])>>
                bare == <<pr[1], pr[2], None>>
            IN  /\ model.EI[pr] >= 5 <=> lab \in groups.eflowsi
                /\ model.EI[pr] >= 5 <=> bare \notin groups.dflows
        /\ \A pr \in OutPairs :
            LET lab == <<pr[1], pr[2], flow_fmt(model.EO[pr])>>
                bare == <<pr[1], pr[2], None>>
            IN  /\ model.EO[pr] >= 5 <=> lab \in groups.eflowso
                /\ model.EO[pr] >= 5 <=> bare \notin groups.dflows
        /\ \A pr \in {"T"} \X {model.emitted} :
            LET lab == <<pr[1], pr[2], flow_fmt(model.Emi[pr[1]])>>
                drawn == {e \in groups.eflowsi \cup groups.eflowso
                                \cup groups.dflows :
                            <<e[1], e[2]>> = pr}
            IN  /\ model.Emi[pr[1]] >= 5 <=> lab \in groups.eflowso
                /\ (model.Emi[pr[1]] < 5 /\ pr \notin OutPairs) =>
                    drawn = {}
        /\ \A e \in groups.dflows : e[3] = None
        /\ \A e \in groups.eflowsi \cup groups.eflowso : e[3] # None

\* A period has been drawn, its description written to results/results1.dot
\* and rendered, in which one input flow is exactly the threshold, an output
\* flow is just below it, and the emission of T, just below it too, has no
\* edge in any group.
C22_Witness ==
    /\ rpc = "main"
    /\ <<images_dir, "results", "results1.dot">> \in fs
    /\ <<images_dir, "results", "results1.svg">> \in fs
    /\ model.EI[<<"c", "T">>] = 5
    /\ model.EO[<<"T", "1">>] = 4
    /\ model.Emi["T"] = 4
    /\ model.emitted = "e"
    /\ <<"c", "T", <<"label", 1>>>> \in groups.eflowsi
    /\ <<"T", "1", None>> \in groups.dflows
    /\ \A e \in groups.eflowsi \cup groups.eflowso \cup groups.dflows :
        e[2] # "e"
    /\ <<"e", None>> \in groups.demissions

Ids(nodes) == {e[1] : e \in nodes}
Ends(edges) == {<<e[1], e[2]>> : e \in edges}

\* C27 as stated: in every per-period results artifact and every per-carrier
\* usage artifact no node id is in both a used and an unused node group, and
\* no (source, destination) pair is in both a used and an unused edge group.
C27_UsedUnusedDisjoint ==
    /\ rpc = "main" =>
        /\ Ids(groups.etechs \cup groups.ecarriers \cup groups.eemissions)
             \cap Ids(groups.dtechs \cup groups.dcarriers
                      \cup groups.demissions) = {}
        /\ Ends(groups.eflowsi \cup groups.eflowso)
             \cap Ends(groups.dflows) = {}
    /\ rpc = "commodity" =>
        /\ Ids(groups.enodes) \cap Ids(groups.dnodes) = {}
        /\ Ends(groups.eedges) \cap Ends(groups.dedges) = {}

\* C27, amended: in every per-carrier usage artifact the used and unused
\* groups are disjoint.  In every per-period results artifact the used and
\* the unused group of technologies are disjoint, as are those of carriers
\* and those of emission commodities; no node id is in both a used and an
\* unused node group of any kind, and no (source, destination) pair is in
\* both a used and an unused edge group, when no name is shared between
\* the technologies, the carriers and the emission commodities.
C27_DisjointUnlessNamesShared ==
    /\ rpc = "main" =>
        /\ Ids(groups.etechs) \cap Ids(groups.dtechs) = {}
        /\ Ids(groups.ecarriers) \cap Ids(groups.dcarriers) = {}
        /\ Ids(groups.eemissions) \cap Ids(groups.demissions) = {}
        /\ (/\ model.idle \notin {"T", "T_1"}
            /\ model.emitted \notin {"T", "T_1", "c", "1", model.idle}) =>
            /\ Ids(groups.etechs \cup groups.ecarriers
                   \cup groups.eemissions)
                 \cap Ids(groups.dtechs \cup groups.dcarriers
                          \cup groups.demissions) = {}
            /\ Ends(groups.eflowsi \cup groups.eflowso)
                 \cap Ends(groups.dflows) = {}
    /\ rpc = "commodity" =>
        /\ Ids(groups.enodes) \cap Ids(groups.dnodes) = {}
        /\ Ends(groups.eedges) \cap Ends(groups.dedges) = {}

\* A per-period artifact has been built and written to results/results1.dot
\* for a model without shared names that has a used and an unused
\* technology, a used and an unused carrier, and a used and an unused flow.
C27_Witness ==
    /\ rpc = "main"
    /\ <<images_dir, "results", "results1.dot">> \in fs
    /\ model.idle = "u" /\ model.emitted = "e"
    /\ groups.etechs # {} /\ groups.dtechs # {}
    /\ groups.ecarriers # {} /\ groups.dcarriers # {}
    /\ groups.eflowsi # {} /\ groups.dflows # {}

(***************************************************************************)
(* Properties of the dispatcher, continued                                 *)
(***************************************************************************)
\* C23: in the multi-process branch, once the directories are prepared,
\* either some job raises or stalls, or every job gets a permit, runs and
\* gives the permit back and CreateModelDiagrams returns, for every number
\* of permits from 1 on.
C23_BatchCompletes ==
    (pc = "sem")
        ~> (\/ /\ pc = "returned"
               /\ \A j \in Jobs : proc[j] = "returned"
               /\ sem = cpu
            \/ \E j \in Jobs : proc[j] \in {"raised", "stalled"})

\* The call has returned after a batch with fewer permits than jobs, all of
\* which returned normally, and every permit is back.
C23_Witness ==
    /\ pc = "returned"
    /\ cpu < Len(batch)
    /\ sem = cpu
    /\ \A j \in Jobs : proc[j] = "returned"
    /\ written # {}

\* C24: in the multi-process branch, from the creation of the semaphore on,
\* free permits + jobs between acquire and release + jobs that raised inside
\* their diagram function = cpu_count().
C24_PermitAccounting ==
    (~IsWin(platform) /\ pc \in {"start", "join", "return", "returned"}) =>
        sem
        + Cardinality({j \in Jobs :
                        proc[j] \in {"running", "stalled"}})
        + Cardinality({j \in Jobs : proc[j] = "raised"})
            = cpu

\* One job has raised and lost its permit, another holds the second permit,
\* and a third one has returned.
C24_Witness ==
    /\ ~IsWin(platform)
    /\ cpu = 2
    /\ sem = 0
    /\ \E j, k, m \in Jobs :
        proc[j] = "raised" /\ proc[k] = "running" /\ proc[m] = "returned"

\* C25: with either layout, once the per-technology function has returned,
\* a technology that does not occur in the process-input data has no file
\* and no renderer call, no error was raised, and the technologies with data
\* (processes with inputs and outputs), those sorted after it included, have
\* been written and handed to the renderer.
C25_NoDataTechSkipped ==
    \A j \in Jobs :
        (/\ batch[j] = "CreateProcessPartialGraphs"
         /\ proc[j] # "pending"
         /\ data.graph_type \in {"separate_vintages", "explicit_vintages"}) =>
            /\ proc[j] = "returned"
            /\ \A t \in data.techs \ data.techdata :
                /\ \A ext \in {"dot", data.ffmt} :
                    [job |-> j,
                     path |-> <<images_dir, "processes",
                                "process_" \o t \o "." \o ext>>]
                        \notin written
                /\ [job |-> j, src |-> "process_" \o t \o ".dot"]
                       \notin rfailed
            /\ \A t \in {x \in data.techdata : data.carriers # {}} :
                \/ [job |-> j,
                    path |-> <<images_dir, "processes",
                               "process_" \o t \o "." \o data.ffmt>>]
                       \in written
                \/ [job |-> j, src |-> "process_" \o t \o ".dot"] \in rfailed

\* The function has returned for a model in which T has no data and T_1,
\* which is sorted after T, has been drawn.
C25_Witness ==
    /\ data.techs = {"T", "T_1"}
    /\ data.techdata = {"T_1"}
    /\ data.graph_type = "separate_vintages"
    /\ \E j \in Jobs :
        /\ batch[j] = "CreateProcessPartialGraphs"
        /\ proc[j] = "returned"
        /\ [job |-> j,
            path |-> <<images_dir, "processes", "process_T_1.dot">>]
               \in written

\* C26: when the loops of CreatePartialSegmentsDiagram are through, every
\* (technology, period, vintage, input, output) combination with a non-zero
\* flow has a file that holds its graph.
C26_OneArtifactPerPair ==
    (rpc = "segments" /\ groups.todo = {}) =>
        \A sc \in SegScopes :
            model[sc] # 0 => \E f \in groups.files : f.holds = sc

\* C28: when CreateModelDiagrams has returned normally the working
\* directory of the calling process is the one it was entered in, and in the
\* sequential branch every job is started in the run directory.
C28_WorkingDirectoryRestored ==
    /\ pc = "returned" => cwd = <<>>
    /\ (pc = "seq" /\ i <= Len(batch) /\ proc[i] = "pending") =>
            cwd = <<images_dir>>

\* The sequential branch has returned after jobs that changed into
\* commodities/ and processes/ and wrote there.
C28_Witness ==
    /\ pc = "returned"
    /\ IsWin(platform)
    /\ cwd = <<>>
    /\ \A j \in Jobs : proc[j] = "returned"
    /\ \E w \in written : Len(w.path) = 3 /\ w.path[2] = "processes"

\* The lines glued together, a newline and n tabs between two of them.
RECURSIVE Glue(_, _)
Glue(lines, n) ==
    IF Len(lines) = 1 THEN lines[1]
    ELSE lines[1] \o <<10>> \o [k \in 1..n |-> 9] \o Glue(Tail(lines), n)

\* C29: the text returned for a non-empty collection is its distinct rendered
\* lines (one for every tuple, None and the empty string being the same
\* attributes) in strictly ascending order of the whole line, code point by
\* code point, with exactly one newline and `indent` tabs between two lines
\* and nothing before the first line or after the last.
C29_SortedLinesJoined ==
    (spc = "returned" /\ input # <<>>) =>
        LET L == TextLines(text, ind)
            bare(e) == IF e[Len(e)] = <<>> THEN [e EXCEPT ![Len(e)] = None]
                       ELSE e
        IN  /\ Len(L) = Cardinality({bare(e) : e \in Range(input)})
            /\ \A r \in 1..(Len(L) - 1) : StrLess(L[r], L[r + 1])
            /\ \A r \in 1..Len(L) :
                /\ L[r] # <<>>
                /\ \A k \in 1..Len(L[r]) : L[r][k] \notin {9, 10}
            /\ text = Glue(L, ind)

\* Two nodes with the same identifier and different attributes have been
\* rendered with an indent: the attributes decide the order of their lines.
C29_Witness ==
    /\ Returned("nodes")
    /\ ind > 0
    /\ \E e, g \in Range(input) :
        e[1] = g[1] /\ e[2] = <<120>> /\ g[2] = <<121>>
    /\ \E r \in 1..(Len(TextLines(text, ind)) - 1) :
        /\ BracketCol(TextLines(text, ind)[r]) # 0
        /\ BracketCol(TextLines(text, ind)[r + 1]) # 0

\* The column of the '-' of the first '->' of a line, 0 if it has none.
ArrowCol(line) ==
    LET cols == {k \in 1..(Len(line) - 1) : line[k] = 45 /\ line[k + 1] = 62}
    IN  IF cols = {} THEN 0
        ELSE CHOOSE k \in cols : \A m \in cols : k <= m

\* The longest second field among the entries of a set, 0 for the empty set.
LongestDest(E) == IF E = {} THEN 0 ELSE max({Len(e[2]) : e \in E})

\* C30: in one returned text all node lines with attributes have their '['
\* in the same column; all edge lines with attributes have their '->' in the
\* same column and their '[' in the same column, the quoted source being
\* padded to the longest quoted source of the set and the quoted destination
\* to the longest quoted destination of the set, each width on its own.
C30_AlignedColumns ==
    LET L == Range(TextLines(text, ind))
        A == {line \in L : BracketCol(line) # 0}
    IN  /\ Returned("nodes") =>
                \A a, b \in A : BracketCol(a) = BracketCol(b)
        /\ Returned("edges") =>
                \A a \in A :
                    /\ ArrowCol(a) = (LongestId(Range(input)) + 2) + 2
                    /\ BracketCol(a) =
                        (LongestId(Range(input)) + 2) + 4
                        + (LongestDest(Range(input)) + 2) + 2

\* Two edges with attributes and destinations of different lengths have been
\* rendered, and the longest source is shorter than the longest destination.
C30_Witness ==
    /\ Returned("edges")
    /\ \E e, g \in Range(input) :
        /\ e[3] \notin {None, <<>>}
        /\ g[3] \notin {None, <<>>}
        /\ Len(e[2]) < Len(g[2])
    /\ LongestId(Range(input)) < LongestDest(Range(input))

====
